---- MODULE Spec2Model ----
(***************************************************************************)
(* Model of mmpose/core/visualization/image.py: the three renderers        *)
(* imshow_bboxes, imshow_keypoints and imshow_keypoints_3d.                *)
(*                                                                         *)
(* A behaviour is a session of a caller that calls one renderer again and  *)
(* again (the renderers share no state, so a session exercises one of      *)
(* them).  The drawing library and the plotting library are represented by *)
(* the commands the code issues to them: the circles, limbs, rectangles    *)
(* and label tags it draws, the 3D panels it configures, and the figures   *)
(* that pyplot keeps open.                                                 *)
(*                                                                         *)
(* Units.  Keypoint confidences and kpt_score_thr are in tenths (3 is      *)
(* 0.3).  2D coordinates are in halves of a pixel (1 is 0.5), so that      *)
(* int() has something to truncate.  3D coordinates are whole units, and   *)
(* the panel centre and limits are in 1/Unit of a unit, so that means are  *)
(* exact.  Sequences are 1-based: keypoint kid of the model is kpts[kid-1] *)
(* of the code, and a skeleton entry (a, b), which the code turns into     *)
(* kpts[a-1], kpts[b-1], indexes the model's sequence directly.            *)
(***************************************************************************)
EXTENDS Integers, Sequences, FiniteSets, TLC

VARIABLES
    fn,        \* the renderer this session calls
    pc,        \* "idle" | "loop" | "iter" | "showing" | "returned" | "raised"
    args,      \* the arguments of the call in progress (or of the last call)
    idx,       \* number of poses of pose_result already processed
    kpts,      \* the pose processed last in this call (<<>>: none yet)
    circles,   \* keypoints drawn for that pose
    limbs,     \* limbs drawn for that pose
    anyDrawn,  \* TRUE once this call has drawn any keypoint or limb
    ax_img,    \* TRUE once this call has drawn the panel of the input image
    err,       \* "none" or the exception type the call raised
    figs,      \* number of figures pyplot holds open
    panel,     \* configuration of the 3D panel of the pose processed last
    boxes,     \* imshow_bboxes: the rectangles and tags drawn, display, file
    blend      \* one keypoint drawn on a pixel buffer, in both modes

vars == <<fn, pc, args, idx, kpts, circles, limbs, anyDrawn, ax_img, err, figs,
          panel, boxes, blend>>

----------------------------------------------------------------------------
(* Bounds of the model *)

MaxPoses == 2

MaxLimbs == 2

MaxBoxes == 2

MaxOpenFigs == 2

(* Program constants *)

DefaultRadius == 4

DefaultThickness == 1

StickWidth == 2

VisHeight == 400

----------------------------------------------------------------------------
(* Values *)

Max(a, b) == IF a >= b THEN a ELSE b

Min(a, b) == IF a <= b THEN a ELSE b

SeqsUpTo(S, n) == UNION {[1..m -> S] : m \in 0..n}

RECURSIVE SumSeq(_)
SumSeq(s) == IF s = <<>> THEN 0 ELSE Head(s) + SumSeq(Tail(s))

RECURSIVE Factorial(_)
Factorial(n) == IF n <= 1 THEN 1 ELSE n * Factorial(n - 1)

\* An optional argument: None, or a value.
None == [given |-> FALSE, val |-> <<>>]

Some(v) == [given |-> TRUE, val |-> v]

\* Colour i of a colour array, as a BGR triple.
Palette(i) == <<(50 * i) % 256, (255 - 30 * i) % 256, (17 * i) % 256>>

ColorArray(n) == [i \in 1..n |-> Palette(i)]

\* Number of keypoints of a pose.
KptCounts == {1, 2}

\* Confidences and thresholds, in tenths.
Scores == {3, 5}

Thresholds == {3, 5}

\* Image shapes (img.shape), in pixels.
ImgShapes == {[h |-> 2, w |-> 3]}

\* int(): truncation towards zero of a coordinate given in halves.
IntTrunc(c) == IF c >= 0 THEN c \div 2 ELSE -((-c) \div 2)

\* 2D positions in halves of a pixel: inside the image, x = 0.5 (int gives 0),
\* x equal to the width, y = -0.5 (int gives 0), y equal to the height.
Positions2D(shape) ==
    {<<2, 2>>, <<1, 2>>, <<2 * shape.w, 2>>, <<2, -1>>, <<2, 2 * shape.h>>}

Kpts2D(shape) ==
    {[x |-> p[1], y |-> p[2], score |-> s] : p \in Positions2D(shape), s \in Scores}

MaxKptCount == CHOOSE m \in KptCounts : \A k \in KptCounts : k <= m

\* Skeleton entries (a, b), 1-based.
Limbs == (1..MaxKptCount) \X (1..MaxKptCount)

Skeletons == {None} \cup {Some(s) : s \in SeqsUpTo(Limbs, MaxLimbs)}

\* The numbers of keypoints a pose of the call may have: every pose of
\* pose_result has its own, and the skeleton indexes keypoints that every
\* pose has.
PoseCounts(a) ==
    {k \in KptCounts :
        \A i \in 1..Len(a.skeleton.val) :
            a.skeleton.val[i][1] <= k /\ a.skeleton.val[i][2] <= k}

Poses2D(a) ==
    UNION {[1..k -> Kpts2D([h |-> a.img_h, w |-> a.img_w])] : k \in PoseCounts(a)}

\* A colour array argument for n elements: None, n colours, or n + 1 colours.
ColorArgs(n) == {None, Some(ColorArray(n)), Some(ColorArray(n + 1))}

\* pose_kpt_color: None, or as many colours as some pose may have keypoints,
\* or one more than any pose has.
KptColorArgs ==
    {None} \cup {Some(ColorArray(k)) : k \in KptCounts \cup {MaxKptCount + 1}}

----------------------------------------------------------------------------
(* imshow_keypoints *)

Args2D ==
    UNION {
        [img_h : {shape.h}, img_w : {shape.w},
         n : 0..MaxPoses,
         skeleton : {sk},
         kpt_score_thr : Thresholds,
         pose_kpt_color : KptColorArgs,
         pose_limb_color : ColorArgs(Len(sk.val)),
         radius : {DefaultRadius},
         thickness : {DefaultThickness},
         show_keypoint_weight : BOOLEAN]
        : sk \in Skeletons, shape \in ImgShapes }

\* A keypoint at the threshold counted as visible.
KptVisible2D_AtLeast(kpt, thr) == kpt.score >= thr

\* Line 120: the visibility test of a keypoint.
KptVisible2D(kpt, thr) == kpt.score > thr

\* Line 126: max(0, min(1, kpt_score)), in tenths.
Transparency(score) == Max(0, Min(10, score))

\* Lines 167-171: max(0, min(1, 0.5 * (s1 + s2))), in twentieths.
LimbTransparency(s1, s2) == Max(0, Min(20, s1 + s2))

\* Lines 119, 143-144: (int(kpt[0]), int(kpt[1])).
PixelPos(kpt) == <<IntTrunc(kpt.x), IntTrunc(kpt.y)>>

\* Lines 119-137: the circle drawn for keypoint kid.  In weighted mode it is
\* drawn on a copy that is blended back with opacity alpha (tenths).
Circle2D(a, ks, kid) ==
    [kid |-> kid,
     center |-> PixelPos(ks[kid]),
     color |-> a.pose_kpt_color.val[kid],
     radius |-> a.radius,
     weighted |-> a.show_keypoint_weight,
     alpha |-> IF a.show_keypoint_weight
               THEN Transparency(ks[kid].score) ELSE 10]

\* Lines 116-137 after the assertion: the circles drawn for one pose.
DrawnCircles2D(a, ks) ==
    IF a.pose_kpt_color.given
    THEN {Circle2D(a, ks, kid) : kid \in {k \in 1..Len(ks) :
                                           KptVisible2D(ks[k], a.kpt_score_thr)}}
    ELSE {}

\* An endpoint on the right or bottom edge counted as inside.
InsideImage_Inclusive(pos, a) ==
    /\ pos[1] > 0 /\ pos[1] <= a.img_w
    /\ pos[2] > 0 /\ pos[2] <= a.img_h

\* Lines 145-147: an endpoint strictly inside the image.
InsideImage(pos, a) ==
    /\ pos[1] > 0 /\ pos[1] < a.img_w
    /\ pos[2] > 0 /\ pos[2] < a.img_h

\* A limb gated by the image bounds alone.
LimbVisible2D_BoundsOnly(a, ks, sk) ==
    /\ InsideImage(PixelPos(ks[sk[1]]), a)
    /\ InsideImage(PixelPos(ks[sk[2]]), a)

\* Lines 143-149: the condition under which skeleton entry sk is drawn.
LimbVisible2D(a, ks, sk) ==
    /\ InsideImage(PixelPos(ks[sk[1]]), a)
    /\ InsideImage(PixelPos(ks[sk[2]]), a)
    /\ ks[sk[1]].score > a.kpt_score_thr
    /\ ks[sk[2]].score > a.kpt_score_thr

\* Lines 150-184: the limb drawn for skeleton entry sk_id: a plain line, or
\* in weighted mode a polygon around the midpoint blended with opacity alpha
\* (twentieths).
Limb2D(a, ks, sk_id) ==
    LET sk == a.skeleton.val[sk_id]
        pos1 == PixelPos(ks[sk[1]])
        pos2 == PixelPos(ks[sk[2]])
    IN  [sk_id |-> sk_id, a |-> sk[1], b |-> sk[2],
         pos1 |-> pos1, pos2 |-> pos2,
         color |-> a.pose_limb_color.val[sk_id],
         style |-> IF a.show_keypoint_weight THEN "polygon" ELSE "line",
         center |-> IF a.show_keypoint_weight
                    THEN <<(pos1[1] + pos2[1]) \div 2, (pos1[2] + pos2[2]) \div 2>>
                    ELSE <<0, 0>>,
         width |-> IF a.show_keypoint_weight THEN StickWidth ELSE a.thickness,
         alpha |-> IF a.show_keypoint_weight
                   THEN LimbTransparency(ks[sk[1]].score, ks[sk[2]].score)
                   ELSE 20]

\* Line 140: limbs are drawn only when both arguments are given.
LimbsRequested(a) == a.skeleton.given /\ a.pose_limb_color.given

\* Lines 142-184 after the assertion: the limbs drawn for one pose.
DrawnLimbs2D(a, ks) ==
    IF LimbsRequested(a)
    THEN {Limb2D(a, ks, i) : i \in {j \in 1..Len(a.skeleton.val) :
                                     LimbVisible2D(a, ks, a.skeleton.val[j])}}
    ELSE {}

\* The assertion of line 117 accepting more colours than keypoints.
KptColorMismatch_TooFew(a, ks) ==
    a.pose_kpt_color.given /\ Len(a.pose_kpt_color.val) < Len(ks)

\* Line 117.
KptColorMismatch(a, ks) ==
    a.pose_kpt_color.given /\ Len(a.pose_kpt_color.val) # Len(ks)

\* Line 141.
LimbColorMismatch(a) ==
    LimbsRequested(a) /\ Len(a.pose_limb_color.val) # Len(a.skeleton.val)

\* Lines 115-184: the body of the loop over poses, for the pose ks.
PoseBody2D(a, ks) ==
    IF KptColorMismatch(a, ks)
    THEN [err |-> "AssertionError", circles |-> {}, limbs |-> {}]
    ELSE IF LimbColorMismatch(a)
    THEN [err |-> "AssertionError", circles |-> DrawnCircles2D(a, ks), limbs |-> {}]
    ELSE [err |-> "none", circles |-> DrawnCircles2D(a, ks),
          limbs |-> DrawnLimbs2D(a, ks)]

----------------------------------------------------------------------------
(* imshow_keypoints: one keypoint on the pixel buffer *)

Pixels(shape) == (0..(shape.w - 1)) \X (0..(shape.h - 1))

\* Image buffers: black, white, and a pattern that differs from pixel to pixel.
Buffers(shape) ==
    {[p \in Pixels(shape) |-> <<0, 0, 0>>],
     [p \in Pixels(shape) |-> <<255, 255, 255>>],
     [p \in Pixels(shape) |->
        <<(40 * p[1] + 7 * p[2]) % 256, (200 + 30 * p[1]) % 256, (13 * p[2] + 5) % 256>>]}

\* Confidences, thresholds and radii of the keypoints drawn on a buffer.
BlendScores == {-2, 3, 5, 10, 12}

BlendThresholds == {-5, 3}

BlendRadii == {0, 1}

\* cv2.circle(img, center, radius, color, -1): the pixels of the filled
\* circle that lie in the image.
CirclePixels(img, center, radius) ==
    {p \in DOMAIN img :
        (p[1] - center[1]) * (p[1] - center[1])
        + (p[2] - center[2]) * (p[2] - center[2]) <= radius * radius}

\* Lines 124-125, 136-137: the buffer with the circle drawn.
DrawCircle(img, center, radius, color) ==
    [p \in DOMAIN img |->
        IF p \in CirclePixels(img, center, radius) THEN color ELSE img[p]]

\* A float32 value v >= 0 is held exactly as [i, f]: v = i + f / FracUnit,
\* with 0 <= f < FracUnit.
FracUnit == 2^27

RECURSIVE Log2(_)
Log2(n) == IF n <= 1 THEN 0 ELSE 1 + Log2(n \div 2)

\* (float)alpha for alpha = t / 10, as a numerator over FracUnit: the double
\* that Python passes, converted to the float scalar addWeighted computes
\* with on 8-bit images.  (float)(1 - t / 10) is Float32Tenths(10 - t).
Float32Tenths(t) ==
    <<0, 13421773, 26843546, 40265320, 53687092, 67108864, 80530640,
      93952408, 107374184, 120795952, 134217728>>[t + 1]

\* Rounding of an exact value to the nearest float32, ties to the even
\* mantissa: the spacing of float32 at v is 2^(Log2(v) - 23).
RoundF32(v) ==
    LET q == IF v.i >= 1 THEN 2^(Log2(v.i) + 4)
             ELSE IF v.f < 2^24 THEN 1
             ELSE 2^(Log2(v.f) - 23)
        r == v.f % q
        down == v.f - r
        f == IF 2 * r < q THEN down
             ELSE IF 2 * r > q THEN down + q
             ELSE IF (down \div q) % 2 = 0 THEN down ELSE down + q
    IN  IF f = FracUnit THEN [i |-> v.i + 1, f |-> 0] ELSE [i |-> v.i, f |-> f]

\* The float32 product a * m / FracUnit of a pixel value a and a scalar.  The
\* exact product is assembled from the two halves of m.
MulF32(a, m) ==
    LET mh == m \div 2^14
        ml == m % 2^14
        lo == (a * ml) % 2^14
        hi == a * mh + (a * ml) \div 2^14
    IN  RoundF32([i |-> hi \div 2^13, f |-> (hi % 2^13) * 2^14 + lo])

\* The float32 sum of two float32 values.
AddF32(x, y) ==
    RoundF32([i |-> x.i + y.i + (x.f + y.f) \div FracUnit,
              f |-> (x.f + y.f) % FracUnit])

\* cvRound: the nearest integer, halves to the even one.
cvRound(v) ==
    IF 2 * v.f < FracUnit THEN v.i
    ELSE IF 2 * v.f > FracUnit THEN v.i + 1
    ELSE IF v.i % 2 = 0 THEN v.i ELSE v.i + 1

\* saturate_cast<uchar>.
Saturate(v) == Max(0, Min(255, v))

\* The blend with its two weights exchanged.
AddWeighted_SwappedWeights(src1, alpha, src2, beta) ==
    [p \in DOMAIN src1 |->
        [c \in 1..3 |->
            Saturate(cvRound(AddF32(MulF32(src1[p][c], Float32Tenths(beta)),
                                    MulF32(src2[p][c], Float32Tenths(alpha)))))]]

\* Lines 127-133: cv2.addWeighted(src1, alpha, src2, beta, 0) on 8-bit
\* buffers, with alpha and beta in tenths: every channel is
\* saturate_cast<uchar>(src1 * alpha + src2 * beta + 0) in float32 arithmetic,
\* each operation rounded to float32.  (On the values of this model a fused
\* multiply-add gives the same channels.)
AddWeighted(src1, alpha, src2, beta) ==
    [p \in DOMAIN src1 |->
        [c \in 1..3 |->
            Saturate(cvRound(AddF32(MulF32(src1[p][c], Float32Tenths(alpha)),
                                    MulF32(src2[p][c], Float32Tenths(beta)))))]]

\* Lines 119-137: the body of the loop over keypoints, on the buffer img.
DrawKeypoint(img, kpt, thr, color, radius, show_keypoint_weight) ==
    IF KptVisible2D(kpt, thr)
    THEN IF show_keypoint_weight
         THEN LET img_copy == DrawCircle(img, PixelPos(kpt), radius, color)
                  transparency == Transparency(kpt.score)
              IN  AddWeighted(img_copy, transparency, img, 10 - transparency)
         ELSE DrawCircle(img, PixelPos(kpt), radius, color)
    ELSE img

NoPanel == [ax_idx |-> 0]

NoBoxes == [err |-> "none"]

NoBlend == [drawn |-> FALSE]

CanCall == pc = "idle"

\* The call is over (the image returned, or the exception propagated to the
\* caller: the renderers catch nothing), and the caller goes on to its next
\* call.  What pyplot holds stays.
Resume ==
    /\ pc \in {"returned", "raised"}
    /\ pc' = "idle"
    /\ args' = [n |-> 0]
    /\ idx' = 0
    /\ kpts' = <<>>
    /\ circles' = {}
    /\ limbs' = {}
    /\ anyDrawn' = FALSE
    /\ ax_img' = FALSE
    /\ err' = "none"
    /\ panel' = NoPanel
    /\ boxes' = NoBoxes
    /\ UNCHANGED <<fn, figs, blend>>

\* Lines 111-112: the call starts, with the image read and its shape taken.
Call2D ==
    /\ fn = "imshow_keypoints"
    /\ CanCall
    /\ \E a \in Args2D : args' = a
    /\ pc' = "loop"
    /\ idx' = 0
    /\ kpts' = <<>>
    /\ circles' = {}
    /\ limbs' = {}
    /\ anyDrawn' = FALSE
    /\ ax_img' = FALSE
    /\ err' = "none"
    /\ UNCHANGED <<fn, figs, panel, boxes, blend>>

\* Lines 114-184: the body of the loop over pose_result, for the next pose.
Pose2D ==
    /\ fn = "imshow_keypoints"
    /\ pc = "loop"
    /\ idx < args.n
    /\ \E ks \in Poses2D(args) :
         LET r == PoseBody2D(args, ks) IN
         /\ kpts' = ks
         /\ circles' = r.circles
         /\ limbs' = r.limbs
         /\ err' = r.err
         /\ anyDrawn' = (anyDrawn \/ r.circles # {} \/ r.limbs # {})
         /\ pc' = IF r.err = "none" THEN "iter" ELSE "raised"
    /\ UNCHANGED <<fn, args, idx, ax_img, figs, panel, boxes, blend>>

\* Lines 114, 254: the for statement moves on to the next element.
NextIter ==
    /\ pc = "iter"
    /\ pc' = "loop"
    /\ idx' = idx + 1
    /\ kpts' = <<>>
    /\ circles' = {}
    /\ limbs' = {}
    /\ panel' = NoPanel
    /\ UNCHANGED <<fn, args, anyDrawn, ax_img, err, figs, boxes, blend>>

\* Line 186: the loop is over and the image is returned.
Return2D ==
    /\ fn = "imshow_keypoints"
    /\ pc = "loop"
    /\ idx = args.n
    /\ pc' = "returned"
    /\ UNCHANGED <<fn, args, idx, kpts, circles, limbs, anyDrawn, ax_img, err, figs,
                   panel, boxes, blend>>

----------------------------------------------------------------------------
(* imshow_keypoints_3d *)

\* 3D positions (x, y, z), in whole units.
Positions3D == {<<0, 0, 1>>, <<2, 4, 1>>, <<-2, 6, 3>>}

Kpts3D ==
    {[x |-> p[1], y |-> p[2], z |-> p[3], score |-> s] : p \in Positions3D, s \in Scores}

Poses3D(a) == UNION {[1..k -> Kpts3D] : k \in PoseCounts(a)}

\* axis_limit, in tenths (the default is 1.7).
AxisLimits == {17}

\* The panel centre and limits are in 1/Unit: tenths of axis_limit halved, and
\* means over at most the largest number of keypoints.
Unit == 20 * Factorial(MaxKptCount)

Args3D ==
    UNION {
      [n : 0..MaxPoses,
       show_img : BOOLEAN,
       skeleton : {sk},
       pose_kpt_color : KptColorArgs,
       pose_limb_color : ColorArgs(Len(sk.val)),
       vis_height : {VisHeight},
       kpt_score_thr : Thresholds,
       axis_limit : AxisLimits]
      : sk \in Skeletons }

\* Line 237.
NumAxis(a) == IF a.show_img THEN a.n + 1 ELSE a.n

\* The mask with a strict comparison.
Valid3D_Strict(ks, thr) == [k \in 1..Len(ks) |-> ks[k].score > thr]

\* Line 256: valid = kpts[:, 3] >= kpt_score_thr, a boolean mask over kid.
Valid3D(ks, thr) == [k \in 1..Len(ks) |-> ks[k].score >= thr]

\* sum(valid): the number of TRUE entries of the mask.
MaskCount(valid) == Cardinality({k \in DOMAIN valid : valid[k]})

\* kpts[valid]: the rows of ks the mask selects, in order.
RECURSIVE Masked(_, _)
Masked(ks, valid) ==
    IF ks = <<>> THEN <<>>
    ELSE IF Head(valid) THEN <<Head(ks)>> \o Masked(Tail(ks), Tail(valid))
    ELSE Masked(Tail(ks), Tail(valid))

\* np.mean of the values vs (a sequence), in 1/Unit.
Mean(vs) == (SumSeq(vs) * Unit) \div Len(vs)

\* Lines 264-265: the centre of the panel.
CenterX(ks, valid) ==
    IF MaskCount(valid) > 0
    THEN Mean([i \in 1..Len(Masked(ks, valid)) |-> Masked(ks, valid)[i].x])
    ELSE 0

CenterY(ks, valid) ==
    IF MaskCount(valid) > 0
    THEN Mean([i \in 1..Len(Masked(ks, valid)) |-> Masked(ks, valid)[i].y])
    ELSE 0

\* axis_limit / 2, in 1/Unit.
HalfLimit(a) == (a.axis_limit * Unit) \div 20

\* Lines 258-268: the panel of pose number i (0-based) and its axis ranges
\* (the view angle, the ticks and the title do not bear on what is drawn).
Panel3D(a, ks, i) ==
    LET x_c == CenterX(ks, Valid3D(ks, a.kpt_score_thr))
        y_c == CenterY(ks, Valid3D(ks, a.kpt_score_thr))
    IN  [ax_idx |-> IF a.show_img THEN i + 2 ELSE i + 1,
         x_c |-> x_c, y_c |-> y_c,
         xlim |-> <<x_c - HalfLimit(a), x_c + HalfLimit(a)>>,
         ylim |-> <<y_c - HalfLimit(a), y_c + HalfLimit(a)>>,
         zlim |-> <<0, 2 * HalfLimit(a)>>]

\* Line 283: BGR to RGB (the division by 255 rescales, and is left out).
Reversed(c) == <<c[3], c[2], c[1]>>

\* Lines 281-290: the keypoints scattered for one pose.
Scattered3D(a, ks) ==
    IF a.pose_kpt_color.given
    THEN {[kid |-> k, pos |-> <<ks[k].x, ks[k].y, ks[k].z>>,
           color |-> Reversed(a.pose_kpt_color.val[k])]
          : k \in {j \in 1..Len(ks) : Valid3D(ks, a.kpt_score_thr)[j]}}
    ELSE {}

\* Lines 300-301: kpt_score.min() > kpt_score_thr.
LimbVisible3D(a, ks, sk) ==
    Min(ks[sk[1]].score, ks[sk[2]].score) > a.kpt_score_thr

\* Lines 295-304: the limbs plotted for one pose.
DrawnLimbs3D(a, ks) ==
    IF LimbsRequested(a)
    THEN {[sk_id |-> i, a |-> a.skeleton.val[i][1], b |-> a.skeleton.val[i][2],
           color |-> Reversed(a.pose_limb_color.val[i])]
          : i \in {j \in 1..Len(a.skeleton.val) :
                     LimbVisible3D(a, ks, a.skeleton.val[j])}}
    ELSE {}

\* Lines 278-304: what follows the panel's configuration, for the pose ks.
PoseBody3D(a, ks) ==
    IF KptColorMismatch(a, ks)
    THEN [err |-> "AssertionError", circles |-> {}, limbs |-> {}]
    ELSE IF LimbColorMismatch(a)
    THEN [err |-> "AssertionError", circles |-> Scattered3D(a, ks), limbs |-> {}]
    ELSE [err |-> "none", circles |-> Scattered3D(a, ks),
          limbs |-> DrawnLimbs3D(a, ks)]

\* Line 240: plt.figure of width vis_height * num_axis * 0.01.  The plotting
\* library decides what a figure of width 0 does: some versions reject it
\* with a ValueError, others create it.
FigureOutcomes(a) == IF NumAxis(a) = 0 THEN {"created", "ValueError"} ELSE {"created"}

\* Lines 236-252: the call starts, creates its figure and, when img is given,
\* draws the input image in the first panel of the figure.  A call is accepted
\* whatever pyplot holds; the guard keeps the count of open figures, which
\* failing calls increase without limit, within MaxOpenFigs.
Call3D ==
    /\ fn = "imshow_keypoints_3d"
    /\ CanCall
    /\ figs < MaxOpenFigs
    /\ \E a \in Args3D : \E o \in FigureOutcomes(a) :
         /\ args' = a
         /\ pc' = IF o = "created" THEN "loop" ELSE "raised"
         /\ err' = IF o = "created" THEN "none" ELSE "ValueError"
         /\ figs' = IF o = "created" THEN figs + 1 ELSE figs
         /\ ax_img' = (o = "created" /\ a.show_img)
    /\ idx' = 0
    /\ kpts' = <<>>
    /\ circles' = {}
    /\ limbs' = {}
    /\ anyDrawn' = FALSE
    /\ panel' = NoPanel
    /\ UNCHANGED <<fn, boxes, blend>>

\* Lines 254-307: the body of the loop over pose_result, for the next pose.
Pose3D ==
    /\ fn = "imshow_keypoints_3d"
    /\ pc = "loop"
    /\ idx < args.n
    /\ \E ks \in Poses3D(args) :
         LET r == PoseBody3D(args, ks) IN
         /\ kpts' = ks
         /\ panel' = Panel3D(args, ks, idx)
         /\ circles' = r.circles
         /\ limbs' = r.limbs
         /\ err' = r.err
         /\ anyDrawn' = (anyDrawn \/ r.circles # {} \/ r.limbs # {})
         /\ pc' = IF r.err = "none" THEN "iter" ELSE "raised"
    /\ UNCHANGED <<fn, args, idx, ax_img, figs, boxes, blend>>

\* Lines 309-319: the figure is rasterised, closed, and the image returned.
\* A canvas of width 0 yields no bytes, and reshape(img_h, 0, -1) raises a
\* ValueError before plt.close is reached.
Finish3D ==
    /\ fn = "imshow_keypoints_3d"
    /\ pc = "loop"
    /\ idx = args.n
    /\ IF NumAxis(args) = 0
       THEN /\ pc' = "raised"
            /\ err' = "ValueError"
            /\ figs' = figs
       ELSE /\ pc' = "returned"
            /\ err' = err
            /\ figs' = figs - 1
    /\ UNCHANGED <<fn, args, idx, kpts, circles, limbs, anyDrawn, ax_img, panel, boxes,
                   blend>>

----------------------------------------------------------------------------
(* imshow_bboxes *)

\* Boxes [x1, y1, x2, y2].
BoxSet == {<<0, 0, 10, 10>>, <<20, 20, 30, 30>>}

ColorNames == {"green", "red"}

LabelSet == {"a", "b"}

\* mmcv.color_val (line 45): a colour name as a BGR triple.
color_val(c) ==
    CASE c = "green" -> <<0, 255, 0>>
      [] c = "red" -> <<0, 0, 255>>
      [] c = "white" -> <<255, 255, 255>>

\* The colors argument: one colour, or a list of colours.
ColorsArgs ==
    {[kind |-> "single", val |-> <<c>>] : c \in ColorNames}
    \cup {[kind |-> "list", val |-> l] : l \in SeqsUpTo(ColorNames, MaxBoxes + 1)}

\* The labels argument: None, one label, or a list of labels.
LabelsArgs ==
    {[kind |-> "none", val |-> <<>>]}
    \cup {[kind |-> "single", val |-> <<l>>] : l \in LabelSet}
    \cup {[kind |-> "list", val |-> l] : l \in SeqsUpTo(LabelSet, MaxBoxes + 1)}

ArgsBBoxes ==
    [bboxes : SeqsUpTo(BoxSet, MaxBoxes),
     labels : LabelsArgs,
     colors : ColorsArgs,
     text_color : {"white"},
     show : BOOLEAN,
     out_file : {None, Some("out.png")}]

\* Line 42: np.split(bboxes, bboxes.shape[0], axis=0) computes
\* bboxes.shape[0] % sections, which divides by zero for an array of no boxes.
SplitFails(bb) == Len(bb) = 0

\* A single colour wrapped in a list of one instead of one per box.
ColorsPerBox_NoBroadcast(a) ==
    LET cs == IF a.colors.kind = "list" THEN a.colors.val ELSE <<a.colors.val[1]>>
    IN  [i \in 1..Len(cs) |-> color_val(cs[i])]

\* Lines 43-45: a colour that is not a list is repeated for every box, and
\* every colour is converted.
ColorsPerBox(a) ==
    LET cs == IF a.colors.kind = "list" THEN a.colors.val
              ELSE [i \in 1..Len(a.bboxes) |-> a.colors.val[1]]
    IN  [i \in 1..Len(cs) |-> color_val(cs[i])]

\* Lines 58-59: a label that is not a list is repeated for every box.
LabelsPerBox(a) ==
    IF a.labels.kind = "list" THEN a.labels.val
    ELSE [i \in 1..Len(a.bboxes) |-> a.labels.val[1]]

\* Lines 48-55: mmcv.imshow_bboxes outlines box i in colour i.
Rectangles(a) ==
    [i \in 1..Len(a.bboxes) |-> [bbox |-> a.bboxes[i], color |-> ColorsPerBox(a)[i]]]

\* Lines 65-67: cv2.getTextSize of a one-character label at font_scale 0.5
\* and thickness 1: the size (width, height) of the text and its baseline.
getTextSize(label) == [text_size |-> <<8, 11>>, text_baseline |-> 5]

\* Lines 62-76: zip(bboxes, labels, colors): tag i is a filled rectangle in
\* box i's colour that starts at box i's left edge and sits above box i's top
\* edge, moved down to the top of the image when it would leave it, and holds
\* label i written at its baseline.
Tags(a) ==
    [i \in 1..Min(Len(a.bboxes), Min(Len(LabelsPerBox(a)), Len(ColorsPerBox(a)))) |->
        LET bbox_int == a.bboxes[i]
            label == LabelsPerBox(a)[i]
            text_size == getTextSize(label).text_size
            text_baseline == getTextSize(label).text_baseline
            text_x1 == bbox_int[1]
            text_y1 == Max(0, bbox_int[2] - text_size[2] - text_baseline)
            text_x2 == bbox_int[1] + text_size[1]
            text_y2 == text_y1 + text_size[2] + text_baseline
        IN  [x1 |-> text_x1, y1 |-> text_y1, x2 |-> text_x2, y2 |-> text_y2,
             org |-> <<text_x1, text_y2 - text_baseline>>,
             label |-> label,
             color |-> ColorsPerBox(a)[i],
             text_color |-> color_val(a.text_color)]]

NothingDrawn(e) ==
    [err |-> e, rects |-> <<>>, tags |-> <<>>, shown |-> FALSE, written |-> FALSE]

\* Lines 41-82: the whole call.
BBoxesResult(a) ==
    IF SplitFails(a.bboxes) THEN NothingDrawn("ZeroDivisionError")
    ELSE IF Len(a.bboxes) # Len(ColorsPerBox(a)) THEN NothingDrawn("AssertionError")
    ELSE IF a.labels.kind # "none" /\ Len(LabelsPerBox(a)) # Len(a.bboxes)
    THEN [err |-> "AssertionError", rects |-> Rectangles(a), tags |-> <<>>,
          shown |-> FALSE, written |-> FALSE]
    ELSE [err |-> "none", rects |-> Rectangles(a),
          tags |-> IF a.labels.kind # "none" THEN Tags(a) ELSE <<>>,
          shown |-> a.show, written |-> a.out_file.given]

\* Lines 9-79: a call of imshow_bboxes, from its arguments to its exception,
\* to its return when show is false (lines 80-82 follow at once), or to the
\* wait of mmcv.imshow (line 79: the image is displayed and the call blocks in
\* waitKey, with the file of out_file not written yet).
CallBBoxes ==
    /\ fn = "imshow_bboxes"
    /\ CanCall
    /\ \E a \in ArgsBBoxes :
         LET r == BBoxesResult(a)
             waits == r.err = "none" /\ a.show
         IN
         /\ args' = a
         /\ boxes' = IF waits THEN [r EXCEPT !.written = FALSE] ELSE r
         /\ err' = r.err
         /\ pc' = IF waits THEN "showing"
                  ELSE IF r.err = "none" THEN "returned" ELSE "raised"
    /\ UNCHANGED <<fn, idx, kpts, circles, limbs, anyDrawn, ax_img, figs, panel, blend>>

\* Lines 79-82: waitKey comes back (a key, or wait_time elapsed); the image is
\* written when out_file is given, and the call returns.
ImshowReturns ==
    /\ fn = "imshow_bboxes"
    /\ pc = "showing"
    /\ boxes' = [boxes EXCEPT !.written = args.out_file.given]
    /\ pc' = "returned"
    /\ UNCHANGED <<fn, args, idx, kpts, circles, limbs, anyDrawn, ax_img, err, figs,
                   panel, blend>>

Renderers == {"imshow_bboxes", "imshow_keypoints", "imshow_keypoints_3d"}

Init ==
    /\ fn \in Renderers
    /\ pc = "idle"
    /\ args = [n |-> 0]
    /\ idx = 0
    /\ kpts = <<>>
    /\ circles = {}
    /\ limbs = {}
    /\ anyDrawn = FALSE
    /\ ax_img = FALSE
    /\ err = "none"
    /\ figs = 0
    /\ panel = NoPanel
    /\ boxes = NoBoxes
    /\ blend = NoBlend

\* Lines 118-137 for one keypoint of one pose: the same buffer, keypoint,
\* colour and radius, drawn with show_keypoint_weight and without it.
DrawOneKeypoint ==
    /\ ~blend.drawn
    /\ \E shape \in ImgShapes :
       \E p \in Positions2D(shape), s \in BlendScores,
          thr \in BlendThresholds, i \in KptCounts, radius \in BlendRadii :
         LET kpt == [x |-> p[1], y |-> p[2], score |-> s] IN
         blend' = [drawn |-> TRUE, img |-> blend.img, kpt |-> kpt, thr |-> thr,
                   color |-> Palette(i), radius |-> radius,
                   weighted |-> DrawKeypoint(blend.img, kpt, thr, Palette(i), radius, TRUE),
                   plain |-> DrawKeypoint(blend.img, kpt, thr, Palette(i), radius, FALSE)]
    /\ UNCHANGED <<fn, pc, args, idx, kpts, circles, limbs, anyDrawn, ax_img, err, figs,
                   panel, boxes>>

InitBlend ==
    /\ fn = "imshow_keypoints"
    /\ pc = "idle"
    /\ args = [n |-> 0]
    /\ idx = 0
    /\ kpts = <<>>
    /\ circles = {}
    /\ limbs = {}
    /\ anyDrawn = FALSE
    /\ ax_img = FALSE
    /\ err = "none"
    /\ figs = 0
    /\ panel = NoPanel
    /\ boxes = NoBoxes
    /\ \E shape \in ImgShapes : \E img \in Buffers(shape) :
         blend = [drawn |-> FALSE, img |-> img]

NextBlend == DrawOneKeypoint

SpecBlend == InitBlend /\ [][NextBlend]_vars

Next ==
    \/ CallBBoxes
    \/ ImshowReturns
    \/ Call2D
    \/ Pose2D
    \/ NextIter
    \/ Return2D
    \/ Call3D
    \/ Pose3D
    \/ Finish3D
    \/ Resume

Spec == Init /\ [][Next]_vars
----------------------------------------------------------------------------
(* Properties *)

In2D == fn = "imshow_keypoints"

In3D == fn = "imshow_keypoints_3d"

\* The loop body has processed a pose in the call in progress.
Posed == kpts # <<>>

HasCircle(kid) == \E c \in circles : c.kid = kid

HasLimb(i) == \E l \in limbs : l.sk_id = i

\* C1: in imshow_keypoints, for every pose whose keypoint loop runs and every
\* keypoint of it, a circle is drawn for the keypoint if and only if
\* pose_kpt_color is not None and the keypoint's confidence is strictly
\* greater than kpt_score_thr (a confidence equal to the threshold is not
\* drawn; with pose_kpt_color None nothing is drawn); and the circle is at the
\* keypoint's integer position, in the keypoint's colour.
C1_KeypointDrawnIff ==
    (In2D /\ Posed
          /\ ~(args.pose_kpt_color.given /\ Len(args.pose_kpt_color.val) # Len(kpts)))
    => /\ \A kid \in 1..Len(kpts) :
            HasCircle(kid) <=>
                (args.pose_kpt_color.given /\ kpts[kid].score > args.kpt_score_thr)
       /\ \A c \in circles :
            /\ c.center = PixelPos(kpts[c.kid])
            /\ c.color = args.pose_kpt_color.val[c.kid]
            /\ c.radius = args.radius

\* C1 witness: a pose with one keypoint above the threshold, drawn, and one
\* keypoint exactly at the threshold, not drawn.
C1_Witness ==
    /\ In2D /\ Posed /\ args.pose_kpt_color.given
    /\ \E k1, k2 \in 1..Len(kpts) :
         /\ kpts[k1].score > args.kpt_score_thr /\ HasCircle(k1)
         /\ kpts[k2].score = args.kpt_score_thr /\ ~HasCircle(k2)

\* C2: in imshow_keypoints, for every pose whose body completes and every
\* skeleton entry (a, b), the limb is drawn if and only if skeleton and
\* pose_limb_color are both given, both endpoints' integer positions are
\* strictly inside the image, and both endpoints' confidences are strictly
\* greater than kpt_score_thr; and the only error a pose raises is the
\* assertion error of a length mismatch, so a limb on the boundary or at the
\* threshold is skipped without an error.
C2_LimbDrawnIff ==
    (In2D /\ Posed) =>
       /\ err = "none" =>
            /\ \A i \in 1..Len(args.skeleton.val) :
                 LET p1 == PixelPos(kpts[args.skeleton.val[i][1]])
                     p2 == PixelPos(kpts[args.skeleton.val[i][2]])
                 IN  HasLimb(i) <=>
                       /\ args.skeleton.given /\ args.pose_limb_color.given
                       /\ 0 < p1[1] /\ p1[1] < args.img_w
                       /\ 0 < p1[2] /\ p1[2] < args.img_h
                       /\ 0 < p2[1] /\ p2[1] < args.img_w
                       /\ 0 < p2[2] /\ p2[2] < args.img_h
                       /\ kpts[args.skeleton.val[i][1]].score > args.kpt_score_thr
                       /\ kpts[args.skeleton.val[i][2]].score > args.kpt_score_thr
            /\ \A l \in limbs : l.sk_id \in 1..Len(args.skeleton.val)
       /\ err # "none" =>
            /\ err = "AssertionError"
            /\ limbs = {}
            /\ \/ (args.pose_kpt_color.given
                   /\ Len(args.pose_kpt_color.val) # Len(kpts))
               \/ (args.skeleton.given /\ args.pose_limb_color.given
                   /\ Len(args.pose_limb_color.val) # Len(args.skeleton.val))

\* C2 witness: a pose that completes without error, in which one limb is
\* drawn and another, whose endpoints are above the threshold but one of which
\* has x equal to the image width, is skipped.
C2_Witness ==
    /\ In2D /\ Posed /\ err = "none" /\ pc = "iter"
    /\ \E i, j \in 1..Len(args.skeleton.val) :
         /\ HasLimb(i)
         /\ ~HasLimb(j)
         /\ kpts[args.skeleton.val[j][1]].score > args.kpt_score_thr
         /\ kpts[args.skeleton.val[j][2]].score > args.kpt_score_thr
         /\ PixelPos(kpts[args.skeleton.val[j][2]])[1] = args.img_w

OnBBoxes == fn = "imshow_bboxes"

CallOver == pc \in {"returned", "raised"}

\* C3 as stated: imshow_bboxes called with an array of zero boxes, and labels
\* and colors that are None or single values, raises no error and returns the
\* image.
C3_ZeroBoxesReturn ==
    (OnBBoxes /\ CallOver /\ Len(args.bboxes) = 0
       /\ args.labels.kind # "list" /\ args.colors.kind # "list")
    => (pc = "returned" /\ err = "none")

\* C4: in imshow_bboxes with k >= 1 boxes, a colors list or a labels list
\* whose length is not k makes the call fail with an assertion error; a call
\* without such a list returns, so a single colour or label is broadcast and
\* never fails on a length; and when the call returns with labels given,
\* exactly k tags are drawn, tag i holding box i's label, in box i's colour,
\* starting at box i's left edge, with its bottom edge on box i's top edge
\* or, when it would leave the image, its top edge on the top of the image.
C4_BBoxLengths ==
    (OnBBoxes /\ CallOver /\ Len(args.bboxes) >= 1) =>
       LET k == Len(args.bboxes)
           badColors == args.colors.kind = "list" /\ Len(args.colors.val) # k
           badLabels == args.labels.kind = "list" /\ Len(args.labels.val) # k
           colorOf(i) == IF args.colors.kind = "list" THEN args.colors.val[i]
                         ELSE args.colors.val[1]
           labelOf(i) == IF args.labels.kind = "list" THEN args.labels.val[i]
                         ELSE args.labels.val[1]
       IN  /\ (badColors \/ badLabels) => (pc = "raised" /\ err = "AssertionError")
           /\ ~(badColors \/ badLabels) => (pc = "returned" /\ err = "none")
           /\ badColors => (boxes.rects = <<>> /\ boxes.tags = <<>>)
           /\ pc = "returned" =>
                /\ Len(boxes.rects) = k
                /\ \A i \in 1..k :
                     /\ boxes.rects[i].bbox = args.bboxes[i]
                     /\ boxes.rects[i].color = color_val(colorOf(i))
                /\ args.labels.kind = "none" => boxes.tags = <<>>
                /\ args.labels.kind # "none" =>
                     /\ Len(boxes.tags) = k
                     /\ \A i \in 1..k :
                          /\ boxes.tags[i].label = labelOf(i)
                          /\ boxes.tags[i].color = color_val(colorOf(i))
                          /\ boxes.tags[i].x1 = args.bboxes[i][1]
                          /\ boxes.tags[i].y1 >= 0
                          /\ boxes.tags[i].y2 > boxes.tags[i].y1
                          /\ \/ boxes.tags[i].y2 = args.bboxes[i][2]
                             \/ boxes.tags[i].y1 = 0

\* C4 witness: a call with two boxes, one broadcast colour and a list of two
\* different labels returns with two tags.
C4_Witness ==
    /\ OnBBoxes /\ pc = "returned"
    /\ Len(args.bboxes) = 2
    /\ args.colors.kind = "single"
    /\ args.labels.kind = "list"
    /\ Len(boxes.tags) = 2
    /\ boxes.tags[1].label # boxes.tags[2].label

\* The length mismatches of a keypoint call: the colour array against the
\* keypoints of the pose processed last (each pose has its own number of
\* keypoints), and the limb colours against the skeleton.
KptLenMismatch ==
    /\ Posed
    /\ args.pose_kpt_color.given /\ Len(args.pose_kpt_color.val) # Len(kpts)

LimbLenMismatch ==
    /\ args.skeleton.given /\ args.pose_limb_color.given
    /\ Len(args.pose_limb_color.val) # Len(args.skeleton.val)

\* C5 as stated: every call of imshow_keypoints or imshow_keypoints_3d with a
\* length mismatch ends in an assertion error, whatever pose_result is, and
\* no element of the call is drawn before the failure.
C5_AlwaysAssertsFirst ==
    ((In2D \/ In3D) /\ CallOver /\ (KptLenMismatch \/ LimbLenMismatch))
    => (pc = "raised" /\ err = "AssertionError" /\ ~anyDrawn /\ ~ax_img)

\* C5 amended: in imshow_keypoints and imshow_keypoints_3d the lengths are
\* checked pose by pose.  Every pose that is processed, the first or a later
\* one, whose number of keypoints differs from the length of a supplied
\* pose_kpt_color, or that is processed while supplied skeleton and
\* pose_limb_color differ in length, makes the call fail with an assertion
\* error at that pose, and an assertion error is raised for no other reason;
\* so the call fails at the first pose at which a check fails, which for the
\* limb lengths is the first pose.  With an empty pose_result no length is
\* checked and no assertion error is raised.  What is drawn before the
\* failure stays: the poses before the failing one and, in
\* imshow_keypoints_3d, the input image when img is given.  Of the failing
\* pose, a keypoint-colour mismatch draws no keypoint and no limb, and a
\* limb-colour mismatch alone draws its visible keypoints and no limb.  Hence
\* the failure precedes every drawing exactly when it is a keypoint-colour
\* mismatch at the first pose and no input image is shown.
C5_AssertsAtMismatchedPose ==
    ((In2D \/ In3D) /\ pc # "idle") =>
       /\ err = "AssertionError" <=> (Posed /\ (KptLenMismatch \/ LimbLenMismatch))
       /\ err = "AssertionError" => pc = "raised"
       /\ (Posed /\ LimbLenMismatch) => idx = 0
       /\ args.n = 0 => err # "AssertionError"
       /\ In3D => (ax_img <=> args.show_img)
       /\ In2D => ~ax_img
       /\ KptLenMismatch => (circles = {} /\ limbs = {})
       /\ (KptLenMismatch /\ idx = 0) => ~anyDrawn
       /\ (LimbLenMismatch /\ Posed /\ ~KptLenMismatch) =>
            /\ limbs = {}
            /\ \A k \in 1..Len(kpts) :
                 HasCircle(k) <=>
                    /\ args.pose_kpt_color.given
                    /\ IF In2D THEN kpts[k].score > args.kpt_score_thr
                       ELSE kpts[k].score >= args.kpt_score_thr
            /\ anyDrawn <=> circles # {}

\* C5 witness: a call of imshow_keypoints_3d with an input image has drawn
\* the image and a keypoint of its first pose, and has failed with an
\* assertion error at its second pose, whose number of keypoints differs from
\* the number of colours (the limb lengths agree).
C5_Witness ==
    /\ In3D /\ pc = "raised" /\ err = "AssertionError"
    /\ idx = 1
    /\ KptLenMismatch /\ ~LimbLenMismatch
    /\ ax_img /\ anyDrawn
    /\ circles = {} /\ limbs = {}

\* C6 as stated: when a call of imshow_keypoints_3d ends, by a normal return
\* or by a length-mismatch assertion error, the figure it created is closed:
\* pyplot holds no open figure.
C6_NoFigureLeft ==
    (In3D /\ CallOver /\ err \in {"none", "AssertionError"}) => figs = 0

\* C7 as stated: in imshow_keypoints_3d, with keypoint colours, skeleton and
\* limb colours given, a limb is drawn exactly when both of its endpoints are
\* keypoints that are scattered, for every confidence.
C7_SamePredicate ==
    (In3D /\ Posed /\ err = "none" /\ args.pose_kpt_color.given
       /\ args.skeleton.given /\ args.pose_limb_color.given)
    => \A i \in 1..Len(args.skeleton.val) :
         HasLimb(i) <=> (HasCircle(args.skeleton.val[i][1])
                         /\ HasCircle(args.skeleton.val[i][2]))

RECURSIVE SumX(_)
SumX(S) == IF S = {} THEN 0
           ELSE LET k == CHOOSE j \in S : TRUE IN kpts[k].x + SumX(S \ {k})

RECURSIVE SumY(_)
SumY(S) == IF S = {} THEN 0
           ELSE LET k == CHOOSE j \in S : TRUE IN kpts[k].y + SumY(S \ {k})

\* C8 as stated: a pose with no keypoint whose confidence is above
\* kpt_score_thr has its panel centred at (0, 0).
C8_NoneAboveCentredAtZero ==
    (In3D /\ Posed /\ {k \in 1..Len(kpts) : kpts[k].score > args.kpt_score_thr} = {})
    => (panel.x_c = 0 /\ panel.y_c = 0)

\* C8 amended: in imshow_keypoints_3d, a pose with no keypoint whose
\* confidence is at or above kpt_score_thr (>=) has its panel centred at
\* (0, 0), without an error; every other pose is centred at the mean x and
\* mean y of exactly the keypoints with confidence >= kpt_score_thr; in both
\* cases the x range is [x_c - axis_limit/2, x_c + axis_limit/2], the y range
\* [y_c - axis_limit/2, y_c + axis_limit/2] and the z range [0, axis_limit].
C8_PanelCentre ==
    (In3D /\ Posed) =>
       LET N == {k \in 1..Len(kpts) : kpts[k].score >= args.kpt_score_thr} IN
       /\ N = {} => (panel.x_c = 0 /\ panel.y_c = 0)
       /\ (N = {} /\ ~KptLenMismatch /\ ~LimbLenMismatch) => err = "none"
       /\ N # {} => /\ panel.x_c * Cardinality(N) = SumX(N) * Unit
                    /\ panel.y_c * Cardinality(N) = SumY(N) * Unit
       /\ 20 * (panel.x_c - panel.xlim[1]) = args.axis_limit * Unit
       /\ 20 * (panel.xlim[2] - panel.x_c) = args.axis_limit * Unit
       /\ 20 * (panel.y_c - panel.ylim[1]) = args.axis_limit * Unit
       /\ 20 * (panel.ylim[2] - panel.y_c) = args.axis_limit * Unit
       /\ panel.zlim[1] = 0
       /\ 10 * panel.zlim[2] = args.axis_limit * Unit

\* C8 witness: a pose none of whose keypoints reaches the threshold, and not
\* all of whose keypoints are at the origin, is centred at (0, 0) without an
\* error.
C8_Witness ==
    /\ In3D /\ Posed /\ err = "none"
    /\ \A k \in 1..Len(kpts) : kpts[k].score < args.kpt_score_thr
    /\ \E k \in 1..Len(kpts) : kpts[k].x # 0
    /\ panel.x_c = 0 /\ panel.y_c = 0

\* C9: in imshow_keypoints with show_keypoint_weight, a visible keypoint is
\* blended into the buffer as opacity * (buffer with the circle drawn)
\* + (1 - opacity) * buffer, within half a level of an 8-bit channel, with
\* opacity the confidence clamped to [0, 1]; hence for a confidence >= 1.0 the result is the buffer that
\* show_keypoint_weight=False produces for the same keypoint, colour and
\* radius, and for every confidence the pixels outside the circle are
\* unchanged; a keypoint that is not visible changes nothing in either mode.
C9_WeightedBlend ==
    blend.drawn =>
       LET visible == blend.kpt.score > blend.thr
           opacity == IF blend.kpt.score < 0 THEN 0
                      ELSE IF blend.kpt.score > 10 THEN 10 ELSE blend.kpt.score
           cx == IF blend.kpt.x >= 0 THEN blend.kpt.x \div 2
                 ELSE -((-blend.kpt.x) \div 2)
           cy == IF blend.kpt.y >= 0 THEN blend.kpt.y \div 2
                 ELSE -((-blend.kpt.y) \div 2)
           inside(p) == (p[1] - cx) * (p[1] - cx) + (p[2] - cy) * (p[2] - cy)
                          <= blend.radius * blend.radius
           mix(p, c) == opacity * blend.plain[p][c] + (10 - opacity) * blend.img[p][c]
       IN  /\ visible =>
                \A p \in DOMAIN blend.img : \A c \in 1..3 :
                   LET d == 10 * blend.weighted[p][c] - mix(p, c) IN
                   d \in -5..5
           /\ visible =>
                \A p \in DOMAIN blend.img :
                   blend.plain[p] = IF inside(p) THEN blend.color ELSE blend.img[p]
           /\ (visible /\ blend.kpt.score >= 10) => blend.weighted = blend.plain
           /\ \A p \in DOMAIN blend.img : ~inside(p) => blend.weighted[p] = blend.img[p]
           /\ ~visible => (blend.weighted = blend.img /\ blend.plain = blend.img)

\* C9 witness: a keypoint of confidence 1.2, drawn with a circle that changes
\* the buffer, gives the same buffer in both modes.
C9_Witness ==
    /\ blend.drawn
    /\ blend.kpt.score > 10 /\ blend.kpt.score > blend.thr
    /\ blend.plain # blend.img
    /\ blend.weighted = blend.plain

\* C10: in both keypoint renderers, when keypoint colours, skeleton and limb
\* colours are all given, every limb that is drawn for a pose has both of its
\* endpoint keypoints drawn for that pose.
C10_LimbImpliesEndpoints ==
    ((In2D \/ In3D) /\ Posed /\ args.pose_kpt_color.given
       /\ args.skeleton.given /\ args.pose_limb_color.given)
    => \A l \in limbs : HasCircle(l.a) /\ HasCircle(l.b)

\* C10 witness: a pose of imshow_keypoints with one limb drawn, both of whose
\* endpoints are drawn, and one limb not drawn although both of its endpoints
\* are drawn (the converse fails: limbs are gated by the image bounds,
\* keypoints are not).
C10_Witness ==
    /\ In2D /\ Posed /\ err = "none"
    /\ \E i, j \in 1..Len(args.skeleton.val) :
         /\ HasLimb(i)
         /\ HasCircle(args.skeleton.val[i][1]) /\ HasCircle(args.skeleton.val[i][2])
         /\ ~HasLimb(j)
         /\ HasCircle(args.skeleton.val[j][1]) /\ HasCircle(args.skeleton.val[j][2])
====
